---- MODULE Spec2Model ----
(***************************************************************************)
(* Lincoln Commons apartment monitor (src/apartment_monitor): the scraper, *)
(* the notification manager, the monitor that composes them, and the       *)
(* processes that main() of monitor.py and of setup.py run in.             *)
(*                                                                         *)
(* Python values are represented as follows.                               *)
(*   str            a TLA+ string                                          *)
(*   Optional[str]  None is <<>>, the string s is <<s>>                    *)
(*   list           a sequence                                             *)
(*   dict           a record                                               *)
(* A fetched page is represented by the element tree the parser builds     *)
(* from it: the sequence of its nodes in document order, each with its     *)
(* tag, its class attribute, its own text and its nesting depth.  The      *)
(* empty sequence is the empty response body.                              *)
(***************************************************************************)
EXTENDS Integers, Sequences, FiniteSets, TLC

VARIABLES
    config,             \* apartment_monitor.config: the environment read at import
    TWILIO_AVAILABLE,   \* notifications.py: whether the twilio import succeeded
    email_configured,   \* NotificationManager.email_configured
    sms_configured,     \* NotificationManager.sms_configured
    last_check_result,  \* ApartmentMonitor.last_check_result
    op,                 \* the operation that ran last
    arg,                \* what that operation was given
    ret,                \* what that operation returned
    calls,              \* what that operation did on the way (calls, transport attempts)
    clock,              \* the number of checks so far; datetime.now() reads it
    process             \* the process main() runs in: its arguments, where it is,
                        \* its output, its exit code and the scheduler's job

vars == <<config, TWILIO_AVAILABLE, email_configured, sms_configured,
          last_check_result, op, arg, ret, calls, clock, process>>

---------------------------------------------------------------------------
(* Python values *)

None == <<>>

Some(s) == <<s>>

\* bool(x) of an Optional[str]: None and "" are falsy.
Truthy(x) == x # None /\ x[1] # ""

\* all(required)
all(required) == \A i \in 1..Len(required) : Truthy(required[i])

\* `term in text` on strings
Contains(text, term) ==
    \E i \in 1..(Len(text) - Len(term) + 1) : SubSeq(text, i, i + Len(term) - 1) = term

\* any(term in text for term in terms)
any_in(text, terms) == \E k \in 1..Len(terms) : Contains(text, terms[k])

LowerChar(c) ==
    CASE c = "A" -> "a" [] c = "B" -> "b" [] c = "C" -> "c" [] c = "D" -> "d"
      [] c = "E" -> "e" [] c = "F" -> "f" [] c = "G" -> "g" [] c = "H" -> "h"
      [] c = "I" -> "i" [] c = "J" -> "j" [] c = "K" -> "k" [] c = "L" -> "l"
      [] c = "M" -> "m" [] c = "N" -> "n" [] c = "O" -> "o" [] c = "P" -> "p"
      [] c = "Q" -> "q" [] c = "R" -> "r" [] c = "S" -> "s" [] c = "T" -> "t"
      [] c = "U" -> "u" [] c = "V" -> "v" [] c = "W" -> "w" [] c = "X" -> "x"
      [] c = "Y" -> "y" [] c = "Z" -> "z" [] OTHER -> c

RECURSIVE lower(_)
\* str.lower(), character by character
lower(s) ==
    IF Len(s) = 0 THEN ""
    ELSE IF Len(s) = 1 THEN LowerChar(s)
    ELSE LET half == Len(s) \div 2
         IN  lower(SubSeq(s, 1, half)) \o lower(SubSeq(s, half + 1, Len(s)))

---------------------------------------------------------------------------
(* scraper.py: the element tree *)

\* The last node of the subtree rooted at node i.
RECURSIVE SubtreeEnd(_, _, _)
SubtreeEnd(doc, i, j) ==
    IF j < Len(doc) /\ doc[j + 1].depth > doc[i].depth
    THEN SubtreeEnd(doc, i, j + 1)
    ELSE j

RECURSIVE JoinText(_, _, _)
JoinText(doc, i, j) == IF i > j THEN "" ELSE doc[i].text \o JoinText(doc, i + 1, j)

\* The text of the element itself, without its descendants'.
get_text_own(doc, i) == doc[i].text

\* element.get_text(): the text of the element and of all its descendants,
\* in document order, with no separator.
get_text(doc, i) == JoinText(doc, i, SubtreeEnd(doc, i, i))

\* str(element): the element serialized with its descendants.
raw_html(doc, i) == SubSeq(doc, i, SubtreeEnd(doc, i, i))

---------------------------------------------------------------------------
(* scraper.py: LincolnCommonsScraper *)

\* find_all(names, ...): the nodes with one of the tags, in document order.
RECURSIVE find_all(_, _, _, _)
find_all(doc, names, by_class, i) ==
    IF i > Len(doc) THEN <<>>
    ELSE (IF doc[i].tag \in names /\ (~by_class \/ doc[i].matches) THEN <<i>> ELSE <<>>)
         \o find_all(doc, names, by_class, i + 1)

\* The class_ filter of parse_apartments: lambda x: x and any(term in x.lower() ...).
\* The parser hands the filter each class of the attribute and the attribute as
\* a whole; no term holds a space, so the attribute as a whole decides.
class_filter(x) ==
    Truthy(x) /\ any_in(lower(x[1]), <<"apartment", "unit", "floor", "plan", "listing">>)

\* The document with each node's class filter evaluated.
WithMatches(doc) ==
    [i \in 1..Len(doc) |->
        [tag |-> doc[i].tag, text |-> doc[i].text, depth |-> doc[i].depth,
         class |-> doc[i].class, matches |-> class_filter(doc[i].class)]]

is_one_bedroom(text_content) ==
    any_in(text_content, <<"1 bed", "1-bed", "one bed", "1br", "1 br">>)

is_aro(text_content) ==
    any_in(text_content, <<"aro", "affordable rental", "affordable housing">>)

\* The availability test made to respect a negation.
available_unless_negated(text_content) ==
    /\ any_in(text_content, <<"available", "vacant", "ready">>)
    /\ ~Contains(text_content, "not ")

available(text_content) ==
    any_in(text_content, <<"available", "vacant", "ready">>)

\* The apartment_info dict _extract_apartment_info builds for an element.
apartment_info(doc, i) ==
    LET text_content == lower(get_text(doc, i))
    IN  [element_text   |-> text_content,
         is_one_bedroom |-> is_one_bedroom(text_content),
         is_aro         |-> is_aro(text_content),
         available      |-> available(text_content),
         raw_html       |-> raw_html(doc, i)]

\* The extraction that returns the dict of every element it could read.
_extract_apartment_info_any(doc, i, raises) ==
    IF raises THEN None ELSE Some(apartment_info(doc, i))

\* _extract_apartment_info(element): the dict when it is relevant, None when
\* it is not or when reading the element raised (caught and logged).
_extract_apartment_info(doc, i, raises) ==
    IF raises THEN None
    ELSE LET info == apartment_info(doc, i)
         IN  IF info.is_one_bedroom \/ info.is_aro THEN Some(info) ELSE None

\* The selection with one list of tags for both of its calls.
apartment_elements_same_tags(doc) ==
    LET d == WithMatches(doc)
        filtered == find_all(d, {"div", "article", "section"}, TRUE, 1)
    IN  IF filtered = <<>>
        THEN find_all(d, {"div", "article", "section"}, FALSE, 1)
        ELSE filtered

\* The elements parse_apartments hands to _extract_apartment_info.
apartment_elements(doc) ==
    LET d == WithMatches(doc)
        filtered == find_all(d, {"div", "section"}, TRUE, 1)
    IN  IF filtered = <<>>
        THEN find_all(d, {"div", "article", "section"}, FALSE, 1)
        ELSE filtered

RECURSIVE extract_each(_, _, _, _)
extract_each(doc, elements, bad, k) ==
    IF k > Len(elements) THEN <<>>
    ELSE _extract_apartment_info(doc, elements[k], k = bad)
         \o extract_each(doc, elements, bad, k + 1)

\* parse_apartments(html_content): the apartments, and the elements it read.
\* soup_raises: building the tree raises (caught, logged, [] returned);
\* bad: the position among the selected elements whose reading raises (0: none).
parse_apartments(html_content, soup_raises, bad) ==
    IF soup_raises
    THEN [apartments |-> <<>>, elements |-> <<>>]
    ELSE LET elements == apartment_elements(html_content)
         IN  [apartments |-> extract_each(html_content, elements, bad, 1),
              elements   |-> elements]

\* raise_for_status() taken to raise for client errors only.
fetch_page_client_errors(http) ==
    CASE http.kind \in {"timeout", "connection_error"} ->
            [raised |-> None, value |-> None]
      [] http.kind = "exception" ->
            [raised |-> Some(http.msg), value |-> None]
      [] http.kind = "response" ->
            IF 400 <= http.status /\ http.status < 500
            THEN [raised |-> None, value |-> None]
            ELSE [raised |-> None, value |-> Some(http.body)]

\* fetch_page(): what it returns (None or the body) or the exception it lets
\* through (it catches requests.RequestException only).
fetch_page(http) ==
    CASE http.kind \in {"timeout", "connection_error"} ->
            [raised |-> None, value |-> None]
      [] http.kind = "exception" ->
            [raised |-> Some(http.msg), value |-> None]
      [] http.kind = "response" ->
            IF 400 <= http.status /\ http.status < 600
            THEN [raised |-> None, value |-> None]
            ELSE [raised |-> None, value |-> Some(http.body)]

RECURSIVE filter_any_status(_, _)
\* The filter without its availability test.
filter_any_status(apartments, k) ==
    IF k > Len(apartments) THEN <<>>
    ELSE (IF apartments[k].is_one_bedroom /\ apartments[k].is_aro
          THEN <<apartments[k]>> ELSE <<>>)
         \o filter_any_status(apartments, k + 1)

RECURSIVE filter_available(_, _)
\* The filter loop of check_aro_one_bedroom_availability.
filter_available(apartments, k) ==
    IF k > Len(apartments) THEN <<>>
    ELSE (IF apartments[k].is_one_bedroom /\ apartments[k].is_aro /\ apartments[k].available
          THEN <<apartments[k]>> ELSE <<>>)
         \o filter_available(apartments, k + 1)

\* A wrong comparison: a list is never shorter than nothing.
completed_at_least(result, aro_one_bedroom_available) ==
    [result EXCEPT !.apartments = aro_one_bedroom_available,
                   !.available = Len(aro_one_bedroom_available) >= 0]

\* The two assignments that complete the result of a check.
completed(result, aro_one_bedroom_available) ==
    [result EXCEPT !.apartments = aro_one_bedroom_available,
                   !.available = Len(aro_one_bedroom_available) > 0]

NoCalls ==
    [http |-> <<>>, parse |-> <<>>, extract |-> <<>>, notify |-> <<>>,
     error_notify |-> <<>>, smtp |-> <<>>, sms |-> <<>>]

\* The check with `html_content is None` for its test of the fetch: an empty
\* body goes on to the parser.
check_aro_one_bedroom_availability_none_only(env) ==
    LET result == [available |-> FALSE, apartments |-> <<>>, error |-> None,
                   timestamp |-> Some(env.now), notifications |-> None]
        page == fetch_page(env.http)
        fetched == [NoCalls EXCEPT !.http = <<env.http>>]
    IN  IF page.raised # None
        THEN [result |-> [result EXCEPT !.error = page.raised], calls |-> fetched]
        ELSE IF page.value = None
        THEN [result |-> [result EXCEPT !.error = Some("Failed to fetch page content")],
              calls |-> fetched]
        ELSE LET parsed == parse_apartments(page.value[1], env.soup_raises, env.bad)
                 aro_one_bedroom_available == filter_available(parsed.apartments, 1)
             IN  [result |-> completed(result, aro_one_bedroom_available),
                  calls |-> [fetched EXCEPT
                                !.parse = <<[raised |-> env.soup_raises]>>,
                                !.extract = [k \in 1..Len(parsed.elements) |->
                                                [element |-> parsed.elements[k],
                                                 raised |-> k = env.bad]]]]

\* check_aro_one_bedroom_availability(): the result dict and the calls made.
check_aro_one_bedroom_availability(env) ==
    LET result == [available |-> FALSE, apartments |-> <<>>, error |-> None,
                   timestamp |-> Some(env.now), notifications |-> None]
        page == fetch_page(env.http)
        fetched == [NoCalls EXCEPT !.http = <<env.http>>]
    IN  IF page.raised # None
        THEN [result |-> [result EXCEPT !.error = page.raised], calls |-> fetched]
        ELSE IF page.value = None \/ page.value[1] = <<>>
        THEN [result |-> [result EXCEPT !.error = Some("Failed to fetch page content")],
              calls |-> fetched]
        ELSE LET parsed == parse_apartments(page.value[1], env.soup_raises, env.bad)
                 aro_one_bedroom_available == filter_available(parsed.apartments, 1)
             IN  [result |-> completed(result, aro_one_bedroom_available),
                  calls |-> [fetched EXCEPT
                                !.parse = <<[raised |-> env.soup_raises]>>,
                                !.extract = [k \in 1..Len(parsed.elements) |->
                                                [element |-> parsed.elements[k],
                                                 raised |-> k = env.bad]]]]

---------------------------------------------------------------------------
(* notifications.py: NotificationManager *)

\* The recipient left out of the required settings.
_check_email_config_sender_only(cfg) ==
    all(<<cfg.EMAIL_USERNAME, cfg.EMAIL_PASSWORD>>)

_check_email_config(cfg) ==
    all(<<cfg.EMAIL_USERNAME, cfg.EMAIL_PASSWORD, cfg.EMAIL_TO>>)

_check_sms_config(cfg, twilio_available) ==
    IF ~twilio_available THEN FALSE
    ELSE all(<<cfg.TWILIO_ACCOUNT_SID, cfg.TWILIO_AUTH_TOKEN,
               cfg.TWILIO_FROM_NUMBER, cfg.TWILIO_TO_NUMBER>>)

\* config.LINCOLN_COMMONS_URL
LINCOLN_COMMONS_URL == "https://www.lincolncommonapartments.com/floorplans"

\* str(n) of a natural number: its decimal digits.
RECURSIVE str(_)
str(n) ==
    IF n < 10 THEN SubSeq("0123456789", n + 1, n + 1)
    ELSE str(n \div 10) \o SubSeq("0123456789", (n % 10) + 1, (n % 10) + 1)

\* The <li> lines of _create_email_body, one for each apartment from the
\* i-th on.
RECURSIVE unit_lines(_, _)
unit_lines(apartments, i) ==
    IF i > Len(apartments) THEN ""
    ELSE "<li><strong>Unit " \o str(i) \o ":</strong> ARO One-bedroom apartment available</li>"
         \o unit_lines(apartments, i + 1)

\* _create_email_body(apartments): the HTML body.  A string here holds ASCII
\* only: the house of the heading is written (house).
_create_email_body(apartments) ==
    LET apartment_count == Len(apartments)
    IN  "\n        <html>\n        <body>\n"
        \o "            <h2>(house) Great News! ARO One-Bedroom Apartment(s) Available!</h2>\n"
        \o "            <p>We found <strong>" \o str(apartment_count)
        \o "</strong> available ARO one-bedroom apartment(s) at Lincoln Commons!</p>\n"
        \o "            \n            <h3>Details:</h3>\n            <ul>\n        "
        \o unit_lines(apartments, 1)
        \o "\n            </ul>\n            \n"
        \o "            <p><strong>Next Steps:</strong></p>\n            <ol>\n"
        \o "                <li>Visit the Lincoln Commons website: <a href=\""
        \o LINCOLN_COMMONS_URL \o "\">" \o LINCOLN_COMMONS_URL \o "</a></li>\n"
        \o "                <li>Contact Lincoln Commons directly to inquire about the ARO one-bedroom units</li>\n"
        \o "                <li>Act quickly as these units may be claimed fast!</li>\n"
        \o "            </ol>\n            \n"
        \o "            <p><em>This is an automated notification from the Lincoln Commons Apartment Monitor.</em></p>\n"
        \o "        </body>\n        </html>\n        "

\* The SMS that leaves the reader to find the site.
_create_sms_body_no_url(apartments) ==
    LET apartment_count == Len(apartments)
    IN  "(house) ALERT: " \o str(apartment_count)
        \o " ARO one-bedroom apartment(s) available at Lincoln Commons!"

\* _create_sms_body(apartments): the text of the SMS.
_create_sms_body(apartments) ==
    LET apartment_count == Len(apartments)
    IN  "(house) ALERT: " \o str(apartment_count)
        \o " ARO one-bedroom apartment(s) available at Lincoln Commons! "
        \o "Check now: " \o LINCOLN_COMMONS_URL

\* The body send_error_notification renders; the warning sign of its heading
\* is written (warning).
error_body(error_message) ==
    "\n            <html>\n            <body>\n"
    \o "                <h2>(warning) Lincoln Commons Apartment Monitor Error</h2>\n"
    \o "                <p>The apartment monitoring system encountered an error:</p>\n"
    \o "                <p><strong>Error:</strong> " \o error_message \o "</p>\n"
    \o "                <p>Please check the system logs and configuration.</p>\n"
    \o "                <p><em>Automated error notification</em></p>\n"
    \o "            </body>\n            </html>\n            "

\* The send tried a second time when the transport refused the first.
send_email_notification_retry(apartments, smtp_ok) ==
    IF ~email_configured
    THEN [value |-> FALSE, smtp |-> <<>>]
    ELSE LET attempt == [kind |-> "availability", count |-> Len(apartments), ok |-> smtp_ok,
                         body |-> _create_email_body(apartments)]
         IN  [value |-> smtp_ok,
              smtp  |-> IF smtp_ok THEN <<attempt>> ELSE <<attempt, attempt>>]

\* send_email_notification(apartments): what it returns and the SMTP sends it
\* attempted, each with the body it carried; smtp_ok is whether the
\* transport accepts the message (an SMTP exception is caught and logged).
send_email_notification(apartments, smtp_ok) ==
    IF ~email_configured
    THEN [value |-> FALSE, smtp |-> <<>>]
    ELSE [value |-> smtp_ok,
          smtp  |-> <<[kind |-> "availability", count |-> Len(apartments), ok |-> smtp_ok,
                       body |-> _create_email_body(apartments)]>>]

\* send_sms_notification(apartments): likewise for the Twilio client.
send_sms_notification(apartments, sms_ok) ==
    IF ~sms_configured
    THEN [value |-> FALSE, sms |-> <<>>]
    ELSE [value |-> sms_ok,
          sms   |-> <<[count |-> Len(apartments), ok |-> sms_ok,
                       body |-> _create_sms_body(apartments)]>>]

\* Notification that remembers the units of the last check and keeps quiet
\* about them.
notify_availability_once(apartments, smtp_ok, sms_ok) ==
    IF apartments # <<>>
       /\ ~(last_check_result # None /\ last_check_result[1].apartments = apartments)
    THEN LET email == send_email_notification(apartments, smtp_ok)
             sms   == send_sms_notification(apartments, sms_ok)
         IN  [value |-> [email_sent |-> email.value, sms_sent |-> sms.value],
              smtp |-> email.smtp, sms |-> sms.sms]
    ELSE [value |-> [email_sent |-> FALSE, sms_sent |-> FALSE],
          smtp |-> <<>>, sms |-> <<>>]

\* Notification that gives up on the SMS when the email was not sent.
notify_availability_email_first(apartments, smtp_ok, sms_ok) ==
    IF apartments # <<>>
    THEN LET email == send_email_notification(apartments, smtp_ok)
             sms   == IF email.value THEN send_sms_notification(apartments, sms_ok)
                      ELSE [value |-> FALSE, sms |-> <<>>]
         IN  [value |-> [email_sent |-> email.value, sms_sent |-> sms.value],
              smtp |-> email.smtp, sms |-> sms.sms]
    ELSE [value |-> [email_sent |-> FALSE, sms_sent |-> FALSE],
          smtp |-> <<>>, sms |-> <<>>]

\* Notification without the test for an empty list.
notify_availability_unguarded(apartments, smtp_ok, sms_ok) ==
    LET email == send_email_notification(apartments, smtp_ok)
        sms   == send_sms_notification(apartments, sms_ok)
    IN  [value |-> [email_sent |-> email.value, sms_sent |-> sms.value],
         smtp |-> email.smtp, sms |-> sms.sms]

\* notify_availability(apartments)
notify_availability(apartments, smtp_ok, sms_ok) ==
    IF apartments # <<>>
    THEN LET email == send_email_notification(apartments, smtp_ok)
             sms   == send_sms_notification(apartments, sms_ok)
         IN  [value |-> [email_sent |-> email.value, sms_sent |-> sms.value],
              smtp |-> email.smtp, sms |-> sms.sms]
    ELSE [value |-> [email_sent |-> FALSE, sms_sent |-> FALSE],
          smtp |-> <<>>, sms |-> <<>>]

\* The error alert sent without looking at the email settings.
send_error_notification_always(error_message, smtp_ok) ==
    [value |-> smtp_ok,
     smtp  |-> <<[kind |-> "error", count |-> 0, ok |-> smtp_ok,
                  body |-> error_body(error_message)]>>]

\* send_error_notification(error_message)
send_error_notification(error_message, smtp_ok) ==
    IF ~email_configured
    THEN [value |-> FALSE, smtp |-> <<>>]
    ELSE [value |-> smtp_ok,
          smtp  |-> <<[kind |-> "error", count |-> 0, ok |-> smtp_ok,
                       body |-> error_body(error_message)]>>]

---------------------------------------------------------------------------
(* monitor.py: ApartmentMonitor *)

\* A check that counts as failed when no channel delivered its alert.
check_apartments_send_failure_fails(scraped, smtp_ok, sms_ok) ==
    LET result == scraped.result
    IN  IF Truthy(result.error)
        THEN LET sent == send_error_notification(result.error[1], smtp_ok)
             IN  [result |-> result,
                  calls  |-> [scraped.calls EXCEPT
                                !.error_notify = <<[error_message |-> result.error[1],
                                                    value |-> sent.value]>>,
                                !.smtp = sent.smtp],
                  last   |-> last_check_result]
        ELSE IF result.apartments # <<>>
        THEN LET notified == notify_availability(result.apartments, smtp_ok, sms_ok)
                 reported == [result EXCEPT !.notifications = Some(notified.value)]
                 failed   == [reported EXCEPT !.error = Some("notification failed"),
                                              !.available = FALSE, !.apartments = <<>>]
                 lost     == ~notified.value.email_sent /\ ~notified.value.sms_sent
             IN  [result |-> IF lost THEN failed ELSE reported,
                  calls  |-> [scraped.calls EXCEPT !.notify = <<result.apartments>>,
                                                   !.smtp = notified.smtp,
                                                   !.sms = notified.sms],
                  last   |-> Some(reported)]
        ELSE [result |-> result, calls |-> scraped.calls, last |-> Some(result)]

\* check_apartments(): the result it returns, the calls made on the way and
\* the value of last_check_result afterwards.  scraped is what
\* self.scraper.check_aro_one_bedroom_availability() returned and did.  No call
\* in the try block lets an exception through (the scraper and the notifier
\* catch their own), so the except branch is never entered.
check_apartments(scraped, smtp_ok, sms_ok) ==
    LET result == scraped.result
    IN  IF Truthy(result.error)
        THEN LET sent == send_error_notification(result.error[1], smtp_ok)
             IN  [result |-> result,
                  calls  |-> [scraped.calls EXCEPT
                                !.error_notify = <<[error_message |-> result.error[1],
                                                    value |-> sent.value]>>,
                                !.smtp = sent.smtp],
                  last   |-> last_check_result]
        ELSE IF result.apartments # <<>>
        THEN LET notified == notify_availability(result.apartments, smtp_ok, sms_ok)
                 reported == [result EXCEPT !.notifications = Some(notified.value)]
             IN  [result |-> reported,
                  calls  |-> [scraped.calls EXCEPT !.notify = <<result.apartments>>,
                                                   !.smtp = notified.smtp,
                                                   !.sms = notified.sms],
                  last   |-> Some(reported)]
        ELSE [result |-> result, calls |-> scraped.calls, last |-> Some(result)]

\* get_status()
get_status ==
    [configuration |-> [email_configured |-> email_configured,
                        sms_configured |-> sms_configured],
     last_check |-> last_check_result]

---------------------------------------------------------------------------
(* The environment: pages, HTTP outcomes, settings *)

Node(tag, class, text, depth) == [tag |-> tag, class |-> class, text |-> text, depth |-> depth]

\* test_utils.create_mock_html_with_apartments
MockHtmlWithApartments ==
    << Node("div", Some("apartment-listing"), "", 0),
       Node("h2", None, "Studio Apartments", 1),
       Node("div", Some("unit"), "Studio - Market Rate - Available", 1),
       Node("div", Some("apartment-listing"), "", 0),
       Node("h2", None, "One Bedroom Apartments", 1),
       Node("div", Some("unit"), "1 Bedroom - Market Rate - Waitlist Only", 1),
       Node("div", Some("unit"), "1 BR ARO Affordable Rental Option - Available Now!", 1),
       Node("div", Some("apartment-listing"), "", 0),
       Node("h2", None, "Two Bedroom Apartments", 1),
       Node("div", Some("unit"), "2 Bedroom - Market Rate - Available", 1) >>

\* test_utils.create_mock_html_no_apartments
MockHtmlNoApartments ==
    << Node("div", Some("apartment-listing"), "", 0),
       Node("h2", None, "Studio Apartments", 1),
       Node("div", Some("unit"), "Studio - Market Rate - Waitlist Only", 1),
       Node("div", Some("apartment-listing"), "", 0),
       Node("h2", None, "One Bedroom Apartments", 1),
       Node("div", Some("unit"), "1 Bedroom - Market Rate - Waitlist Only", 1),
       Node("div", Some("apartment-listing"), "", 0),
       Node("h2", None, "Two Bedroom Apartments", 1),
       Node("div", Some("unit"), "2 Bedroom - Market Rate - Waitlist Only", 1) >>

\* Three listings side by side, one of them an available ARO one-bedroom.
FlatPage ==
    << Node("div", Some("unit"), "Studio - Market Rate - Available", 0),
       Node("div", Some("unit"), "1 BR ARO - Available Now", 0),
       Node("section", Some("FloorPlan"), "1 Bedroom ARO - Waitlist", 0) >>

\* Two available ARO one-bedrooms around a one-bedroom that is neither.
TwoUnitsPage ==
    << Node("div", Some("listing"), "One Bed affordable housing, vacant", 0),
       Node("div", Some("listing"), "1-bed market rate", 0),
       Node("div", Some("listing"), "1br ARO ready", 0) >>

\* One listing nested in two containers that match the class filter.
NestedPage ==
    << Node("div", Some("floor"), "", 0),
       Node("section", Some("plan"), "", 1),
       Node("div", Some("unit"), "1 Bed ARO vacant", 2) >>

\* No class matches: the selection falls back to every container.
FallbackPage ==
    << Node("div", Some("hero"), "Welcome", 0),
       Node("article", None, "ARO 1 bed ready", 0),
       Node("p", None, "1 br aro available", 0) >>

\* An article that matches the class filter beside a div that does.
ArticlePage ==
    << Node("article", Some("listing"), "1 BR ARO available", 0),
       Node("div", Some("unit"), "Studio", 0) >>

\* Containers, none of them about a one-bedroom or ARO.
IrrelevantPage ==
    << Node("div", None, "Contact us", 0),
       Node("div", Some("footer"), "Rental opportunity, available", 0) >>

\* Text and no container at all.
TextPage == << Node("p", None, "1 br aro available", 0) >>

\* A listing that says it is not available.
NegatedPage == << Node("div", Some("unit"), "1 br ARO: not available", 0) >>

Pages ==
    {MockHtmlWithApartments, MockHtmlNoApartments, FlatPage, TwoUnitsPage, NestedPage,
     FallbackPage, ArticlePage, IrrelevantPage, TextPage, NegatedPage}

EmptyBody == <<>>

ErrMsgs == {"boom", "codec error"}

Http(kind, status, body, msg) == [kind |-> kind, status |-> status, body |-> body, msg |-> msg]

\* What one session.get can do: fail in the network, answer with a status
\* and a body, or raise something that is no RequestException.
HttpOutcomes ==
    {Http(k, 0, EmptyBody, "") : k \in {"timeout", "connection_error"}}
    \cup {Http("exception", 0, EmptyBody, m) : m \in ErrMsgs}
    \cup {Http("response", s, TextPage, "") : s \in {404, 503}}
    \cup {Http("response", 204, EmptyBody, "")}
    \cup {Http("response", 200, b, "") : b \in Pages \cup {EmptyBody}}

\* os.getenv(name): None when the variable is unset, else its value.
Getenv == {None, Some(""), Some("secret")}

Settings ==
    [EMAIL_USERNAME : Getenv, EMAIL_PASSWORD : Getenv, EMAIL_TO : Getenv,
     TWILIO_ACCOUNT_SID : Getenv, TWILIO_AUTH_TOKEN : Getenv,
     TWILIO_FROM_NUMBER : Getenv, TWILIO_TO_NUMBER : Getenv]

\* The settings in which each channel has all of its variables or none.
AllOrNone ==
    {cfg \in Settings :
        /\ cfg.EMAIL_USERNAME \in {None, Some("secret")}
        /\ cfg.EMAIL_PASSWORD = cfg.EMAIL_USERNAME /\ cfg.EMAIL_TO = cfg.EMAIL_USERNAME
        /\ cfg.TWILIO_ACCOUNT_SID \in {None, Some("secret")}
        /\ cfg.TWILIO_AUTH_TOKEN = cfg.TWILIO_ACCOUNT_SID
        /\ cfg.TWILIO_FROM_NUMBER = cfg.TWILIO_ACCOUNT_SID
        /\ cfg.TWILIO_TO_NUMBER = cfg.TWILIO_ACCOUNT_SID}

MaxChecks == 3

MaxBad == 2

\* What the environment does to the scraper during one check: the outcome of
\* the GET, whether building the tree raises, which element's reading raises,
\* and the time.  What the check never gets to is left at its default.
ScrapeEnvs ==
    {e \in [http : HttpOutcomes, soup_raises : BOOLEAN, bad : 0..MaxBad, now : 1..MaxChecks] :
        /\ (e.http.kind # "response" \/ 400 <= e.http.status \/ e.http.body = EmptyBody)
              => (~e.soup_raises /\ e.bad = 0)
        /\ e.soup_raises => e.bad = 0}

\* check_aro_one_bedroom_availability() in each of these environments.
Scraped == {[env |-> e, done |-> check_aro_one_bedroom_availability(e)] : e \in ScrapeEnvs}

\* What parse_apartments is called with directly: a page, whether building
\* the tree raises, and the position of the element whose reading raises.
ParseInputs ==
    {i \in [html_content : Pages \cup {EmptyBody}, soup_raises : BOOLEAN, bad : 0..MaxBad] :
        i.soup_raises => i.bad = 0}

\* parse_apartments on each of them.
Parsed ==
    {[input |-> i, done |-> parse_apartments(i.html_content, i.soup_raises, i.bad)] :
        i \in ParseInputs}

\* The unit lists that the notifier is called with directly.
UnitLists == {filter_available(parse_apartments(p, FALSE, 0).apartments, 1) : p \in Pages}

\* The texts that _extract_apartment_info is called with directly.
Texts ==
    {"", "1 Bed", "1-BED", "one bed", "1br", "1 br", "ARO", "affordable rental",
     "Affordable Housing", "rental opportunity", "available", "Vacant", "ready",
     "not available", "1br aro unit available now", "2 bedroom market rate available",
     "studio"}

---------------------------------------------------------------------------
(* monitor.py: run_once, run_scheduler and main; setup.py: main *)

\* A mock scraper that finds its unit whatever it was built with.
MockLincolnCommonsScraper_ignores_flag(mock_available, now) ==
    LET apartments ==
            <<[element_text   |-> "aro one bedroom apartment available now",
               is_one_bedroom |-> TRUE,
               is_aro         |-> TRUE,
               available      |-> TRUE,
               raw_html       |-> <<Node("div", None, "Mock ARO 1BR Available", 0)>>]>>
    IN  [result |-> [available |-> Len(apartments) > 0, apartments |-> apartments,
                     error |-> None, timestamp |-> Some(now), notifications |-> None],
         calls  |-> NoCalls]

\* test_utils.MockLincolnCommonsScraper.check_aro_one_bedroom_availability():
\* a canned result, and no call to anything.
MockLincolnCommonsScraper(mock_available, now) ==
    LET apartments ==
            IF mock_available
            THEN <<[element_text   |-> "aro one bedroom apartment available now",
                    is_one_bedroom |-> TRUE,
                    is_aro         |-> TRUE,
                    available      |-> TRUE,
                    raw_html       |-> <<Node("div", None, "Mock ARO 1BR Available", 0)>>]>>
            ELSE <<>>
    IN  [result |-> [available |-> Len(apartments) > 0, apartments |-> apartments,
                     error |-> None, timestamp |-> Some(now), notifications |-> None],
         calls  |-> NoCalls]

\* run_once(): the block it prints for the result check_apartments returned.
\* A line that is not printed is None.
run_once(result) ==
    [timestamp     |-> result.timestamp,
     count         |-> Len(result.apartments),
     status        |-> IF result.available THEN "AVAILABLE" ELSE "NOT AVAILABLE",
     error         |-> IF Truthy(result.error) THEN result.error ELSE None,
     notifications |-> result.notifications]

\* The length of a day and the longest a pass of the loop takes, in polls of
\* time.sleep(60); the time the model stops at.
Day == 3

MaxSleep == 2

MaxTime == 8

\* config.CHECK_TIME, as a poll of the day.
CheckTick == 1

\* schedule.every().day.at(config.CHECK_TIME): the first time after now that
\* the clock shows CHECK_TIME.
next_run_after(now) ==
    CHOOSE t \in (now + 1)..(now + Day) : t % Day = CheckTick

\* A scheduler whose job is due at every poll.
run_pending_every_poll(now, next_run) == next_run # None

\* schedule.run_pending(): whether the job is due.
run_pending(now, next_run) == next_run # None /\ now >= next_run[1]

\* A setup that does not look at the result of its installation test.
setup_main_ignores_test(python_ok, dependencies_ok, env_file_ok, test_ok) ==
    IF ~python_ok THEN 1
    ELSE IF ~dependencies_ok THEN 1
    ELSE IF ~env_file_ok THEN 1
    ELSE 0

\* setup.main(): the code it returns to sys.exit.
setup_main(python_ok, dependencies_ok, env_file_ok, test_ok) ==
    IF ~python_ok THEN 1
    ELSE IF ~dependencies_ok THEN 1
    ELSE IF ~env_file_ok THEN 1
    ELSE IF ~test_ok THEN 1
    ELSE 0

\* No process: the objects are used as a library.
NoProcess ==
    [program |-> "none", argv |-> <<>>, logging_ok |-> TRUE, phase |-> "none",
     exit_code |-> None, printed |-> <<>>, now |-> 0, next_run |-> None, ran |-> <<>>]

\* sys.argv[1:] of the processes considered.
Argvs == {<<>>, <<"check">>, <<"CHECK">>, <<"schedule">>, <<"status">>, <<"test">>,
          <<"deploy">>, <<"check", "now">>}

\* The processes at their start: the program, its arguments, whether
\* setup_logging() succeeds, and the time of day.
Processes ==
    {[NoProcess EXCEPT !.program = "monitor", !.argv = a, !.logging_ok = l,
                       !.phase = "start", !.now = t] :
        a \in Argvs, l \in BOOLEAN, t \in 0..(Day - 1)}
    \cup {[NoProcess EXCEPT !.program = "setup", !.phase = "start"]}

\* The fetches the scheduler's checks meet.
ScrapedFew ==
    {s \in Scraped :
        /\ ~s.env.soup_raises /\ s.env.bad = 0
        /\ \/ s.env.http.kind = "timeout"
           \/ s.env.http.kind = "response" /\ s.env.http.status = 200
                /\ s.env.http.body \in {MockHtmlWithApartments, TextPage}}

---------------------------------------------------------------------------
(* src/apartment_scraper.py: LincolnCommonsMonitor, the legacy monitor *)

\* str.strip(): the string without its leading and trailing whitespace.
RECURSIVE strip(_)
strip(s) ==
    IF Len(s) = 0 THEN s
    ELSE IF SubSeq(s, 1, 1) \in {" ", "\n"} THEN strip(SubSeq(s, 2, Len(s)))
    ELSE IF SubSeq(s, Len(s), Len(s)) \in {" ", "\n"} THEN strip(SubSeq(s, 1, Len(s) - 1))
    ELSE s

\* The elements directly below node i.
children(doc, i) ==
    {k \in (i + 1)..SubtreeEnd(doc, i, i) : doc[k].depth = doc[i].depth + 1}

\* tag.string: the one string the tag holds, directly or through a chain of
\* only children; None when it holds none or more than one thing.
RECURSIVE tag_string(_, _)
tag_string(doc, i) ==
    LET below == children(doc, i)
    IN  IF below = {} THEN (IF doc[i].text = "" THEN None ELSE Some(doc[i].text))
        ELSE IF doc[i].text = "" /\ Cardinality(below) = 1
             THEN tag_string(doc, CHOOSE k \in below : TRUE)
             ELSE None

\* The first node of a set, in document order.
First(S) == CHOOSE k \in S : \A m \in S : k <= m

\* LincolnCommonsMonitor.fetch_page(): the parsed page, None after a
\* RequestException (raise_for_status raises one on 4xx and 5xx), or the
\* exception it lets through.  The page of an empty body is a page.
LincolnCommonsMonitor_fetch_page(http) ==
    CASE http.kind \in {"timeout", "connection_error"} ->
            [raised |-> None, value |-> None]
      [] http.kind = "exception" ->
            [raised |-> Some(http.msg), value |-> None]
      [] http.kind = "response" ->
            IF 400 <= http.status /\ http.status < 600
            THEN [raised |-> None, value |-> None]
            ELSE [raised |-> None, value |-> Some(http.body)]

\* The class_ filter of find_aro_units.  No keyword holds a space, so the
\* attribute as a whole decides.
floorplan_class(x) ==
    Truthy(x) /\ any_in(lower(x[1]), <<"floorplan", "unit", "apartment", "plan">>)

\* soup.find_all(['div', 'section'], class_=...) from node i on.
RECURSIVE floorplan_containers(_, _)
floorplan_containers(doc, i) ==
    IF i > Len(doc) THEN <<>>
    ELSE (IF doc[i].tag \in {"div", "section"} /\ floorplan_class(doc[i].class)
          THEN <<i>> ELSE <<>>)
         \o floorplan_containers(doc, i + 1)

\* container.find([h1..h4], string=lambda x: x and 'bedroom' in x.lower()):
\* the first heading below the container whose string holds the word.
title_elem(doc, i) ==
    LET hits == {k \in (i + 1)..SubtreeEnd(doc, i, i) :
                    /\ doc[k].tag \in {"h1", "h2", "h3", "h4"}
                    /\ Truthy(tag_string(doc, k))
                    /\ Contains(lower(tag_string(doc, k)[1]), "bedroom")}
    IN  IF hits = {} THEN None ELSE Some(First(hits))

\* container.find(string=lambda x: x and any(keyword in x.lower() ...)): the
\* first string of the container that holds one of the keywords.
find_string(doc, i, keywords) ==
    LET hits == {k \in i..SubtreeEnd(doc, i, i) :
                    doc[k].text # "" /\ any_in(lower(doc[k].text), keywords)}
    IN  IF hits = {} THEN None ELSE Some(doc[First(hits)].text)

\* container.find(string=lambda x: x and '$' in x)
price_elem(doc, i) ==
    LET hits == {k \in i..SubtreeEnd(doc, i, i) :
                    doc[k].text # "" /\ Contains(doc[k].text, "$")}
    IN  IF hits = {} THEN None ELSE Some(doc[First(hits)].text)

\* The dict without a key: dict.get answers None for each.
empty_unit_info == [name |-> None, availability |-> None, price |-> None, sqft |-> None]

\* extract_unit_info that gives a unit up when it finds no availability text.
extract_unit_info_needs_availability(doc, i) ==
    LET availability_elem == find_string(doc, i, <<"available", "vacant", "ready">>)
        sqft_elem == find_string(doc, i, <<"sq ft", "sqft">>)
        unit_info ==
            [name |-> IF title_elem(doc, i) # None
                      THEN Some(strip(get_text(doc, title_elem(doc, i)[1]))) ELSE None,
             availability |-> IF Truthy(availability_elem)
                              THEN Some(strip(availability_elem[1])) ELSE None,
             price |-> IF Truthy(price_elem(doc, i))
                       THEN Some(strip(price_elem(doc, i)[1])) ELSE None,
             sqft |-> IF Truthy(sqft_elem) THEN Some(strip(sqft_elem[1])) ELSE None]
    IN  IF unit_info.availability = None THEN None ELSE Some(unit_info)

\* extract_unit_info(container): the dict of what it found, a key for each
\* thing found, or None when it found nothing.  Nothing in its try block
\* raises on a parsed page.
extract_unit_info(doc, i) ==
    LET availability_elem == find_string(doc, i, <<"available", "vacant", "ready">>)
        sqft_elem == find_string(doc, i, <<"sq ft", "sqft">>)
        unit_info ==
            [name |-> IF title_elem(doc, i) # None
                      THEN Some(strip(get_text(doc, title_elem(doc, i)[1]))) ELSE None,
             availability |-> IF Truthy(availability_elem)
                              THEN Some(strip(availability_elem[1])) ELSE None,
             price |-> IF Truthy(price_elem(doc, i))
                       THEN Some(strip(price_elem(doc, i)[1])) ELSE None,
             sqft |-> IF Truthy(sqft_elem) THEN Some(strip(sqft_elem[1])) ELSE None]
    IN  IF unit_info = empty_unit_info THEN None ELSE Some(unit_info)

\* The loop of find_aro_units from the k-th container on.
RECURSIVE aro_units(_, _, _)
aro_units(doc, containers, k) ==
    IF k > Len(containers) THEN <<>>
    ELSE LET text_content == lower(get_text(doc, containers[k]))
             unit_info == extract_unit_info(doc, containers[k])
         IN  (IF /\ any_in(text_content, <<"bedroom", "1br", "1 br">>)
                 /\ any_in(text_content, <<"aro", "affordable", "rental opportunity">>)
                 /\ unit_info # None
              THEN unit_info ELSE <<>>)
             \o aro_units(doc, containers, k + 1)

\* find_aro_units(soup): the units of the page, in document order.
find_aro_units(soup) == aro_units(soup, floorplan_containers(soup, 1), 1)

\* LincolnCommonsMonitor.base_url
base_url == "https://www.lincolncommonapartments.com/floorplans"

\* dict.get(key, 'N/A')
get(value) == IF value = None THEN "N/A" ELSE value[1]

\* The "Unit i" blocks of the body, from the i-th unit on.
RECURSIVE unit_blocks(_, _)
unit_blocks(available_units, i) ==
    IF i > Len(available_units) THEN ""
    ELSE "\nUnit " \o str(i) \o ":\n"
         \o "- Name: " \o get(available_units[i].name) \o "\n"
         \o "- Availability: " \o get(available_units[i].availability) \o "\n"
         \o "- Price: " \o get(available_units[i].price) \o "\n"
         \o "- Square Footage: " \o get(available_units[i].sqft) \o "\n\n"
         \o unit_blocks(available_units, i + 1)

\* send_email(subject, body): one attempt over SMTP; it catches what the
\* attempt raises.
send_email(subject, body, smtp_ok) == <<[subject |-> subject, body |-> body, ok |-> smtp_ok]>>

\* send_notification(available_units): the emails it attempts.  The time of
\* the alert is written as the number of the hour.
send_notification(available_units, now, smtp_ok) ==
    IF available_units = <<>> THEN <<>>
    ELSE send_email(
            "ARO Units Available at Lincoln Commons - " \o str(Len(available_units))
                \o " unit(s)",
            "\nARO One-Bedroom Units Available at Lincoln Commons!\n\nFound "
                \o str(Len(available_units)) \o " available ARO one-bedroom unit(s):\n\n"
                \o unit_blocks(available_units, 1)
                \o "\nCheck the website for more details and to apply:\n"
                \o base_url
                \o "\n\nThis alert was generated at: " \o str(now) \o "\n",
            smtp_ok)

\* check_availability(): the page it got, the units it found, the outbound
\* calls it made and the exception it let through.
check_availability(http, now, smtp_ok) ==
    LET soup == LincolnCommonsMonitor_fetch_page(http)
        available_units == IF soup.value = None THEN <<>> ELSE find_aro_units(soup.value[1])
    IN  [raised |-> soup.raised,
         soup |-> soup.value,
         available_units |-> available_units,
         calls |-> [NoCalls EXCEPT !.http = <<http>>,
                                   !.smtp = send_notification(available_units, now, smtp_ok)]]

\* A listing with the keywords and nothing else to read.
KeywordsOnlyPage ==
    << Node("div", Some("unit"), "1br ARO", 0),
       Node("div", Some("unit"), "", 0),
       Node("p", None, "One Bedroom, affordable", 1) >>

\* A listing under a heading, with no word about availability.
NamedPage ==
    << Node("div", Some("floorplan-card"), "", 0),
       Node("h3", None, " One Bedroom ARO ", 1),
       Node("p", None, "Third floor", 1) >>

\* A listing with a price and a size, and a heading that wraps its text.
PricedPage ==
    << Node("section", Some("Plan"), "", 0),
       Node("h2", None, "", 1),
       Node("b", None, "1 Bedroom", 2),
       Node("p", None, "Affordable", 1),
       Node("p", None, " $1,200 / month\n", 1),
       Node("p", None, "650 Sq Ft", 1) >>

\* A two-bedroom rental opportunity beside a listing in a tag the monitor
\* does not look at.
OtherUnitsPage ==
    << Node("div", Some("apartment"), "2 Bedroom rental opportunity, vacant", 0),
       Node("article", Some("unit"), "1 br ARO available", 0),
       Node("div", Some("card"), "1 br ARO available", 0) >>

LegacyPages == Pages \cup {KeywordsOnlyPage, NamedPage, PricedPage, OtherUnitsPage}

\* What the legacy monitor's session.get can do.
LegacyHttpOutcomes ==
    HttpOutcomes \cup {Http("response", 200, b, "") : b \in LegacyPages}

---------------------------------------------------------------------------
(* The state machine *)

\* ApartmentMonitor.__init__ in a process started with one of the settings.
InitWith(settings, twilio) ==
    /\ config \in settings
    /\ TWILIO_AVAILABLE \in twilio
    /\ email_configured = _check_email_config(config)
    /\ sms_configured = _check_sms_config(config, TWILIO_AVAILABLE)
    /\ last_check_result = None
    /\ op = "init"
    /\ arg = <<>>
    /\ ret = <<>>
    /\ calls = NoCalls
    /\ clock = 0
    /\ process = NoProcess

\* Nothing but __init__ writes the settings and the flags.
ConfigUnchanged == UNCHANGED <<config, TWILIO_AVAILABLE, email_configured, sms_configured>>

Unchanged == ConfigUnchanged /\ UNCHANGED process

\* monitor.check_apartments(): one whole check.
CheckApartments ==
    /\ clock < MaxChecks
    /\ \E scraped \in Scraped, smtp_ok \in BOOLEAN, sms_ok \in BOOLEAN :
        /\ scraped.env.now = clock + 1
        /\ ~email_configured => smtp_ok
        /\ ~sms_configured => sms_ok
        /\ LET done == check_apartments(scraped.done, smtp_ok, sms_ok)
           IN  /\ op' = "check_apartments"
               /\ arg' = <<>>
               /\ ret' = done.result
               /\ calls' = done.calls
               /\ last_check_result' = done.last
               /\ clock' = clock + 1
    /\ Unchanged

\* notifier.notify_availability(apartments), called on its own.
NotifyAvailability ==
    /\ \E apartments \in UnitLists, smtp_ok \in BOOLEAN, sms_ok \in BOOLEAN :
        /\ ~email_configured => smtp_ok
        /\ ~sms_configured => sms_ok
        /\ LET done == notify_availability(apartments, smtp_ok, sms_ok)
           IN  /\ op' = "notify_availability"
               /\ arg' = apartments
               /\ ret' = done.value
               /\ calls' = [NoCalls EXCEPT !.notify = <<apartments>>,
                                           !.smtp = done.smtp, !.sms = done.sms]
    /\ UNCHANGED <<last_check_result, clock>>
    /\ Unchanged

\* notifier.send_email_notification(apartments), called on its own.
SendEmailNotification ==
    /\ \E apartments \in UnitLists, smtp_ok \in BOOLEAN :
        /\ ~email_configured => smtp_ok
        /\ LET done == send_email_notification(apartments, smtp_ok)
           IN  /\ op' = "send_email_notification"
               /\ arg' = apartments
               /\ ret' = done.value
               /\ calls' = [NoCalls EXCEPT !.smtp = done.smtp]
    /\ UNCHANGED <<last_check_result, clock>>
    /\ Unchanged

\* notifier.send_sms_notification(apartments), called on its own.
SendSmsNotification ==
    /\ \E apartments \in UnitLists, sms_ok \in BOOLEAN :
        /\ ~sms_configured => sms_ok
        /\ LET done == send_sms_notification(apartments, sms_ok)
           IN  /\ op' = "send_sms_notification"
               /\ arg' = apartments
               /\ ret' = done.value
               /\ calls' = [NoCalls EXCEPT !.sms = done.sms]
    /\ UNCHANGED <<last_check_result, clock>>
    /\ Unchanged

\* notifier.send_error_notification(error_message), called on its own.
SendErrorNotification ==
    /\ \E error_message \in ErrMsgs, smtp_ok \in BOOLEAN :
        /\ ~email_configured => smtp_ok
        /\ LET done == send_error_notification(error_message, smtp_ok)
           IN  /\ op' = "send_error_notification"
               /\ arg' = error_message
               /\ ret' = done.value
               /\ calls' = [NoCalls EXCEPT
                                !.error_notify = <<[error_message |-> error_message,
                                                    value |-> done.value]>>,
                                !.smtp = done.smtp]
    /\ UNCHANGED <<last_check_result, clock>>
    /\ Unchanged

\* scraper._extract_apartment_info(element) on an element that holds a text.
ExtractApartmentInfo ==
    /\ \E text \in Texts :
        LET element == <<Node("div", None, text, 0)>>
        IN  /\ op' = "_extract_apartment_info"
            /\ arg' = text
            /\ ret' = [apartment_info |-> apartment_info(element, 1),
                       value |-> _extract_apartment_info(element, 1, FALSE)]
            /\ calls' = NoCalls
    /\ UNCHANGED <<last_check_result, clock>>
    /\ Unchanged

\* scraper.parse_apartments(html_content), called on its own.
ParseApartments ==
    /\ \E parsed \in Parsed :
        /\ op' = "parse_apartments"
        /\ arg' = parsed.input
        /\ ret' = parsed.done.apartments
        /\ calls' = [NoCalls EXCEPT
                        !.parse = <<[raised |-> parsed.input.soup_raises]>>,
                        !.extract = [k \in 1..Len(parsed.done.elements) |->
                                        [element |-> parsed.done.elements[k],
                                         raised |-> k = parsed.input.bad]]]
    /\ UNCHANGED <<last_check_result, clock>>
    /\ Unchanged

\* monitor.get_status(): the `status` command.
GetStatus ==
    /\ op' = "get_status"
    /\ arg' = <<>>
    /\ ret' = get_status
    /\ calls' = NoCalls
    /\ UNCHANGED <<last_check_result, clock>>
    /\ Unchanged

\* The monitor at work: checks and status queries.
Init == InitWith(AllOrNone, {TRUE})

Next ==
    \/ CheckApartments
    \/ GetStatus

Spec == Init /\ [][Next]_vars

\* The scraper's and the notifier's methods, each called on its own.
InitCalls == InitWith(AllOrNone, BOOLEAN)

NextCalls ==
    \/ NotifyAvailability
    \/ SendEmailNotification
    \/ SendSmsNotification
    \/ SendErrorNotification
    \/ ExtractApartmentInfo
    \/ ParseApartments

SpecCalls == InitCalls /\ [][NextCalls]_vars

\* Start-up under every setting of the environment, then the sends.
InitConfig == InitWith(Settings, BOOLEAN)

NextConfig ==
    \/ SendEmailNotification
    \/ SendSmsNotification
    \/ SendErrorNotification
    \/ GetStatus

SpecConfig == InitConfig /\ [][NextConfig]_vars

\* main(), the command after sys.argv[0], lower-cased; None when there is none.
command ==
    IF Len(process.argv) < 1 THEN None ELSE Some(lower(process.argv[1]))

Started == process.program = "monitor" /\ process.phase = "start"

\* setup_logging() raises (a LOG_LEVEL the logging module does not have, a
\* log file that cannot be opened): the process ends with a traceback.
SetupLoggingRaises ==
    /\ Started /\ ~process.logging_ok
    /\ op' = "main" /\ arg' = process.argv /\ ret' = <<>> /\ calls' = NoCalls
    /\ process' = [process EXCEPT !.phase = "exited", !.exit_code = Some(1)]
    /\ UNCHANGED <<last_check_result, clock>>
    /\ ConfigUnchanged

\* main() without a command: the usage text and sys.exit(1).
MainUsage ==
    /\ Started /\ process.logging_ok /\ command = None
    /\ op' = "main" /\ arg' = process.argv /\ ret' = <<>> /\ calls' = NoCalls
    /\ process' = [process EXCEPT !.phase = "exited", !.exit_code = Some(1),
                                  !.printed = <<"Usage">>]
    /\ UNCHANGED <<last_check_result, clock>>
    /\ ConfigUnchanged

\* main() with a command it does not know: sys.exit(1).
MainUnknown ==
    /\ Started /\ process.logging_ok /\ command # None
    /\ command[1] \notin {"check", "schedule", "status", "test"}
    /\ op' = "main" /\ arg' = process.argv /\ ret' = <<>> /\ calls' = NoCalls
    /\ process' = [process EXCEPT !.phase = "exited", !.exit_code = Some(1),
                                  !.printed = <<"Unknown command">>]
    /\ UNCHANGED <<last_check_result, clock>>
    /\ ConfigUnchanged

\* main() with `check`: monitor.run_once(), then the end of main.
MainCheck ==
    /\ Started /\ process.logging_ok /\ command = Some("check")
    /\ \E scraped \in Scraped, smtp_ok \in BOOLEAN, sms_ok \in BOOLEAN :
        /\ scraped.env.now = clock + 1
        /\ ~email_configured => smtp_ok
        /\ ~sms_configured => sms_ok
        /\ LET done == check_apartments(scraped.done, smtp_ok, sms_ok)
           IN  /\ op' = "run_once"
               /\ arg' = process.argv
               /\ ret' = done.result
               /\ calls' = done.calls
               /\ last_check_result' = done.last
               /\ clock' = clock + 1
               /\ process' = [process EXCEPT !.phase = "exited", !.exit_code = Some(0),
                                             !.printed = <<run_once(done.result)>>]
    /\ ConfigUnchanged

\* main() with `status`: monitor.get_status() printed, then the end of main.
MainStatus ==
    /\ Started /\ process.logging_ok /\ command = Some("status")
    /\ op' = "get_status" /\ arg' = process.argv /\ ret' = get_status /\ calls' = NoCalls
    /\ process' = [process EXCEPT !.phase = "exited", !.exit_code = Some(0),
                                  !.printed = <<get_status>>]
    /\ UNCHANGED <<last_check_result, clock>>
    /\ ConfigUnchanged

\* main() with `test`, first half: run_once() with the mock scraper that
\* finds nothing.
MainTestNoApartments ==
    /\ Started /\ process.logging_ok /\ command = Some("test")
    /\ \E smtp_ok \in BOOLEAN, sms_ok \in BOOLEAN :
        /\ ~email_configured => smtp_ok
        /\ ~sms_configured => sms_ok
        /\ LET done == check_apartments(MockLincolnCommonsScraper(FALSE, clock + 1),
                                        smtp_ok, sms_ok)
           IN  /\ op' = "run_once"
               /\ arg' = process.argv
               /\ ret' = done.result
               /\ calls' = done.calls
               /\ last_check_result' = done.last
               /\ clock' = clock + 1
               /\ process' = [process EXCEPT !.phase = "test 2",
                                             !.printed = <<run_once(done.result)>>]
    /\ ConfigUnchanged

\* main() with `test`, second half: run_once() with the mock scraper that
\* finds one unit, then the end of main.
MainTestWithApartments ==
    /\ process.program = "monitor" /\ process.phase = "test 2"
    /\ \E smtp_ok \in BOOLEAN, sms_ok \in BOOLEAN :
        /\ ~email_configured => smtp_ok
        /\ ~sms_configured => sms_ok
        /\ LET done == check_apartments(MockLincolnCommonsScraper(TRUE, clock + 1),
                                        smtp_ok, sms_ok)
           IN  /\ op' = "run_once"
               /\ arg' = process.argv
               /\ ret' = done.result
               /\ calls' = done.calls
               /\ last_check_result' = done.last
               /\ clock' = clock + 1
               /\ process' = [process EXCEPT !.phase = "exited", !.exit_code = Some(0),
                                             !.printed = Append(@, run_once(done.result))]
    /\ ConfigUnchanged

\* main() with `schedule`: run_scheduler() up to its loop: the daily job is
\* scheduled and a first check is run.
RunScheduler ==
    /\ Started /\ process.logging_ok /\ command = Some("schedule")
    /\ \E scraped \in ScrapedFew, smtp_ok \in BOOLEAN, sms_ok \in BOOLEAN :
        /\ scraped.env.now = clock + 1
        /\ ~email_configured => smtp_ok
        /\ ~sms_configured => sms_ok
        /\ LET done == check_apartments(scraped.done, smtp_ok, sms_ok)
               next_run == Some(next_run_after(process.now))
           IN  /\ op' = "check_apartments"
               /\ arg' = process.argv
               /\ ret' = done.result
               /\ calls' = done.calls
               /\ last_check_result' = done.last
               /\ clock' = clock + 1
               /\ process' = [process EXCEPT
                                 !.phase = "scheduler",
                                 !.next_run = next_run,
                                 !.ran = <<[at |-> process.now, next_run |-> next_run]>>]
    /\ ConfigUnchanged

\* One pass of the loop of run_scheduler, the job being due:
\* schedule.run_pending() runs check_apartments and schedules the job for
\* the next day, then time.sleep(60).
RunPendingDue ==
    /\ process.program = "monitor" /\ process.phase = "scheduler"
    /\ process.now < MaxTime /\ clock < MaxChecks
    /\ run_pending(process.now, process.next_run)
    /\ \E scraped \in ScrapedFew, smtp_ok \in BOOLEAN, sms_ok \in BOOLEAN,
          slept \in 1..MaxSleep :
        /\ scraped.env.now = clock + 1
        /\ ~email_configured => smtp_ok
        /\ ~sms_configured => sms_ok
        /\ LET done == check_apartments(scraped.done, smtp_ok, sms_ok)
           IN  /\ op' = "check_apartments"
               /\ arg' = process.argv
               /\ ret' = done.result
               /\ calls' = done.calls
               /\ last_check_result' = done.last
               /\ clock' = clock + 1
               /\ process' = [process EXCEPT
                                 !.now = @ + slept,
                                 !.next_run = Some(next_run_after(process.now)),
                                 !.ran = Append(@, [at |-> process.now,
                                                    next_run |-> process.next_run])]
    /\ ConfigUnchanged

\* One pass of the loop, the job not being due: time.sleep(60) only.
RunPendingIdle ==
    /\ process.program = "monitor" /\ process.phase = "scheduler"
    /\ process.now < MaxTime
    /\ ~run_pending(process.now, process.next_run)
    /\ \E slept \in 1..MaxSleep :
        /\ op' = "run_pending" /\ arg' = process.argv /\ ret' = <<>> /\ calls' = NoCalls
        /\ process' = [process EXCEPT !.now = @ + slept]
    /\ UNCHANGED <<last_check_result, clock>>
    /\ ConfigUnchanged

\* Ctrl+C while the loop runs: run_scheduler returns and main ends.
KeyboardInterrupt ==
    /\ process.program = "monitor" /\ process.phase = "scheduler"
    /\ op' = "KeyboardInterrupt" /\ arg' = process.argv /\ ret' = <<>> /\ calls' = NoCalls
    /\ process' = [process EXCEPT !.phase = "exited", !.exit_code = Some(0)]
    /\ UNCHANGED <<last_check_result, clock>>
    /\ ConfigUnchanged

\* setup.py: sys.exit(main()).
SetupMain ==
    /\ process.program = "setup" /\ process.phase = "start"
    /\ \E python_ok \in BOOLEAN, dependencies_ok \in BOOLEAN, env_file_ok \in BOOLEAN,
          test_ok \in BOOLEAN :
        /\ op' = "setup.main"
        /\ arg' = <<python_ok, dependencies_ok, env_file_ok, test_ok>>
        /\ ret' = setup_main(python_ok, dependencies_ok, env_file_ok, test_ok)
        /\ process' = [process EXCEPT !.phase = "exited", !.exit_code = Some(ret')]
    /\ calls' = NoCalls
    /\ UNCHANGED <<last_check_result, clock>>
    /\ ConfigUnchanged

\* One run of a process, from its start to its exit.
InitMain ==
    /\ config \in AllOrNone
    /\ TWILIO_AVAILABLE = TRUE
    /\ email_configured = _check_email_config(config)
    /\ sms_configured = _check_sms_config(config, TWILIO_AVAILABLE)
    /\ last_check_result = None
    /\ op = "init"
    /\ arg = <<>>
    /\ ret = <<>>
    /\ calls = NoCalls
    /\ clock = 0
    /\ process \in Processes

NextMain ==
    \/ SetupLoggingRaises
    \/ MainUsage
    \/ MainUnknown
    \/ MainCheck
    \/ MainStatus
    \/ MainTestNoApartments
    \/ MainTestWithApartments
    \/ RunScheduler
    \/ RunPendingDue
    \/ RunPendingIdle
    \/ KeyboardInterrupt
    \/ SetupMain

SpecMain == InitMain /\ [][NextMain]_vars

\* The legacy program, started by its hourly workflow.
LegacyProcess == [NoProcess EXCEPT !.program = "apartment_scraper", !.phase = "start"]

\* apartment_scraper.main(): one run of the legacy program, which builds the
\* monitor and checks once.  main logs an exception and raises it again, so
\* the run ends with a traceback and exit code 1.
CheckAvailability ==
    /\ process.program = "apartment_scraper"
    /\ clock < MaxChecks
    /\ \E http \in LegacyHttpOutcomes, smtp_ok \in BOOLEAN :
        LET done == check_availability(http, clock + 1, smtp_ok)
        IN  /\ done.calls.smtp = <<>> => smtp_ok
            /\ op' = "check_availability"
            /\ arg' = <<>>
            /\ ret' = [raised |-> done.raised, soup |-> done.soup,
                       available_units |-> done.available_units]
            /\ calls' = done.calls
            /\ clock' = clock + 1
            /\ process' = [process EXCEPT
                                !.phase = "exited",
                                !.exit_code = IF done.raised = None THEN Some(0) ELSE Some(1),
                                !.now = clock + 1]
    /\ ConfigUnchanged
    /\ UNCHANGED last_check_result

\* monitor.find_aro_units(soup) on a page, called directly.
FindAroUnits ==
    /\ process.program = "apartment_scraper"
    /\ \E soup \in LegacyPages \cup {EmptyBody} :
        /\ op' = "find_aro_units"
        /\ arg' = soup
        /\ ret' = [raised |-> None, soup |-> Some(soup),
                   available_units |-> find_aro_units(soup)]
        /\ calls' = NoCalls
    /\ Unchanged
    /\ UNCHANGED <<last_check_result, clock>>

\* The legacy program builds no ApartmentMonitor and reads none of its
\* settings: they stay unset.
InitLegacy ==
    /\ config \in {cfg \in AllOrNone :
                      cfg.EMAIL_USERNAME = None /\ cfg.TWILIO_ACCOUNT_SID = None}
    /\ TWILIO_AVAILABLE = FALSE
    /\ email_configured = FALSE
    /\ sms_configured = FALSE
    /\ last_check_result = None
    /\ op = "init"
    /\ arg = <<>>
    /\ ret = <<>>
    /\ calls = NoCalls
    /\ clock = 0
    /\ process = LegacyProcess

NextLegacy ==
    \/ CheckAvailability
    \/ FindAroUnits

SpecLegacy == InitLegacy /\ [][NextLegacy]_vars

---------------------------------------------------------------------------
(* Properties *)

Checked == op = "check_apartments"

\* The outcome of the GET of the check that ran last.
Got == calls.http[1]

\* The GET failed: no response, or a response with an error status.
FetchFailed ==
    \/ Got.kind \in {"timeout", "connection_error"}
    \/ Got.kind = "response" /\ Got.status \notin 200..299

ResultShape(result) ==
    /\ result.error # None => ~result.available /\ result.apartments = <<>>
    /\ result.available => result.apartments # <<>> /\ result.error = None

\* C1: every result a check returns, from the scraper and from the monitor,
\* has no units and available = false when its error is set, and has units
\* and no error when available = true.
C1_ResultShape ==
    /\ \A s \in Scraped : ResultShape(s.done.result)
    /\ Checked => ResultShape(ret)

\* A failed check that follows a check that found units.
C1_Witness ==
    /\ Checked /\ ret.error # None
    /\ last_check_result # None /\ last_check_result[1].available

MatchingCandidates ==
    LET infos == [k \in 1..Len(calls.extract) |->
                    apartment_info(Got.body, calls.extract[k].element)]
        Matches(k) == /\ ~calls.extract[k].raised
                      /\ infos[k].is_one_bedroom /\ infos[k].is_aro /\ infos[k].available
        kept == SelectSeq([k \in 1..Len(calls.extract) |-> k], Matches)
    IN  [n \in 1..Len(kept) |-> infos[kept[n]]]

\* C3: the units of a check without error are the candidates with all three
\* flags, in document order, and available says whether there is one; a page
\* of three listings, one of them matching, gives one unit.
C3_UnitsAreMatches ==
    Checked /\ ret.error = None =>
        /\ ret.apartments = MatchingCandidates
        /\ ret.available = (Len(ret.apartments) > 0)
        /\ (Got.body = FlatPage /\ calls.parse[1].raised = FALSE
              /\ \A k \in 1..Len(calls.extract) : ~calls.extract[k].raised)
            => Len(ret.apartments) = 1 /\ ret.available

\* The page of three listings was checked and gave its one unit.
C3_Witness ==
    /\ Checked /\ ret.error = None /\ Got.body = FlatPage
    /\ Len(calls.extract) = 3 /\ Len(ret.apartments) = 1
    /\ ret.apartments[1].element_text = "1 br aro - available now"

Extracted == op = "_extract_apartment_info"

\* The flags the claim gives a lower-cased text, with `aro` the ARO keywords.
FlagsAsClaimed(text, aro) ==
    [is_one_bedroom |-> \E t \in {"1 bed", "1-bed", "one bed", "1br", "1 br"} : Contains(text, t),
     is_aro         |-> \E t \in aro : Contains(text, t),
     available      |-> \E t \in {"available", "vacant", "ready"} : Contains(text, t)]

FlagsOf(info) ==
    [is_one_bedroom |-> info.is_one_bedroom, is_aro |-> info.is_aro,
     available |-> info.available]

\* C4 as claimed: the ARO flag is set by any of four keywords, "rental
\* opportunity" among them.
C4_Original ==
    Extracted =>
        FlagsOf(ret.apartment_info)
          = FlagsAsClaimed(ret.apartment_info.element_text,
                           {"aro", "affordable rental", "affordable housing",
                            "rental opportunity"})

\* C4 amended: the three flags are plain substring tests of the lower-cased
\* text, the ARO flag for "aro", "affordable rental" and "affordable housing"
\* only; "not available" is available and the empty text has no flag.
C4_Classification ==
    Extracted =>
        /\ FlagsOf(ret.apartment_info)
             = FlagsAsClaimed(ret.apartment_info.element_text,
                              {"aro", "affordable rental", "affordable housing"})
        /\ arg = "not available" => ret.apartment_info.available
        /\ arg = "" => FlagsOf(ret.apartment_info)
                         = [is_one_bedroom |-> FALSE, is_aro |-> FALSE, available |-> FALSE]

\* "not available" was classified, and as available.
C4_Witness ==
    Extracted /\ arg = "not available" /\ ret.apartment_info.available

\* A check that found units and attempted an alert for them.
Alerted(c) == c.notify # <<>> /\ (c.smtp # <<>> \/ c.sms # <<>>)

\* C5 as claimed: a check that finds the units the check before it alerted
\* about sends no alert.
C5_Original ==
    [][(/\ Checked /\ Alerted(calls)
        /\ op' = "check_apartments" /\ clock' = clock + 1
        /\ ret'.error = None /\ ret'.apartments = ret.apartments)
       => calls'.smtp = <<>> /\ calls'.sms = <<>>]_vars

\* C5 amended: nothing is remembered between checks; every check that finds
\* units calls notify_availability once with them and attempts one send on
\* each configured channel, whatever earlier checks found and sent.
C5_AlertEveryCheck ==
    Checked /\ ret.error = None /\ ret.apartments # <<>> =>
        /\ calls.notify = <<ret.apartments>>
        /\ Len(calls.smtp) = (IF email_configured THEN 1 ELSE 0)
        /\ Len(calls.sms) = (IF sms_configured THEN 1 ELSE 0)
        /\ \A k \in 1..Len(calls.smtp) : calls.smtp[k].kind = "availability"

\* A second check that found units and attempted both alerts.
C5_Witness ==
    /\ Checked /\ clock = 2 /\ ret.apartments # <<>>
    /\ Len(calls.smtp) = 1 /\ Len(calls.sms) = 1

\* An exception was raised while the page was parsed or an element was read.
ParseRaised ==
    /\ calls.parse # <<>>
    /\ \/ calls.parse[1].raised
       \/ \E k \in 1..Len(calls.extract) : calls.extract[k].raised

\* C6: an exception during extraction or classification fails the check: the
\* result has available = false, no units and the error set, and the error
\* alert is triggered.
C6_ParseFailureFails ==
    Checked /\ ParseRaised =>
        /\ ret.error # None /\ ~ret.available /\ ret.apartments = <<>>
        /\ Len(calls.error_notify) = 1

Notified == op = "notify_availability"

\* C7: notify_availability reports a channel as sent exactly when the channel
\* is configured and its one attempt succeeded; an unconfigured channel makes
\* no attempt, and each configured channel is attempted whatever the other did.
C7_ChannelsIndependent ==
    Notified =>
        /\ Len(calls.smtp) <= 1 /\ Len(calls.sms) <= 1
        /\ ret.email_sent <=> (email_configured /\ calls.smtp # <<>> /\ calls.smtp[1].ok)
        /\ ret.sms_sent <=> (sms_configured /\ calls.sms # <<>> /\ calls.sms[1].ok)
        /\ ~email_configured => calls.smtp = <<>>
        /\ ~sms_configured => calls.sms = <<>>
        /\ arg # <<>> /\ email_configured => Len(calls.smtp) = 1
        /\ arg # <<>> /\ sms_configured => Len(calls.sms) = 1

\* The email attempt failed and the SMS was sent all the same.
C7_Witness ==
    /\ Notified /\ arg # <<>>
    /\ calls.smtp # <<>> /\ ~calls.smtp[1].ok /\ ~ret.email_sent
    /\ ret.sms_sent

\* C8: notify_availability with no units returns false for both channels and
\* attempts no send.
C8_EmptyIsNoOp ==
    Notified /\ arg = <<>> =>
        /\ ret = [email_sent |-> FALSE, sms_sent |-> FALSE]
        /\ calls.smtp = <<>> /\ calls.sms = <<>>

\* It was called with no units while both channels were configured.
C8_Witness == Notified /\ arg = <<>> /\ email_configured /\ sms_configured

Present(x) == x # None /\ x # Some("")

EmailComplete ==
    Present(config.EMAIL_USERNAME) /\ Present(config.EMAIL_PASSWORD) /\ Present(config.EMAIL_TO)

SmsComplete ==
    /\ Present(config.TWILIO_ACCOUNT_SID) /\ Present(config.TWILIO_AUTH_TOKEN)
    /\ Present(config.TWILIO_FROM_NUMBER) /\ Present(config.TWILIO_TO_NUMBER)

\* C9 as claimed: each channel is configured exactly when all of its settings
\* are present and non-empty.
C9_Original ==
    /\ email_configured <=> EmailComplete
    /\ sms_configured <=> SmsComplete

\* C9 amended: email is configured exactly when its three settings are present
\* and non-empty; SMS exactly when the Twilio library could be imported and
\* its four settings are present and non-empty.  The flags stay so after any
\* send, and a missing setting disables its channel only.
C9_Configured ==
    /\ email_configured <=> EmailComplete
    /\ sms_configured <=> (TWILIO_AVAILABLE /\ SmsComplete)

\* The recipient is empty: the monitor started, email is off and an SMS went out.
C9_Witness ==
    /\ config.EMAIL_TO = Some("") /\ Present(config.EMAIL_USERNAME)
    /\ Present(config.EMAIL_PASSWORD) /\ ~email_configured
    /\ sms_configured /\ op = "send_sms_notification" /\ ret = TRUE

\* C10: a failed check calls send_error_notification once, with the error of
\* the result; the call sends by email only, attempts nothing and returns
\* false when email is not configured, and returns false when the send raises.
C10_ErrorAlert ==
    Checked /\ ret.error # None =>
        /\ Len(calls.error_notify) = 1
        /\ calls.error_notify[1].error_message = ret.error[1]
        /\ calls.notify = <<>> /\ calls.sms = <<>>
        /\ Len(calls.smtp) = (IF email_configured THEN 1 ELSE 0)
        /\ \A k \in 1..Len(calls.smtp) : calls.smtp[k].kind = "error"
        /\ calls.error_notify[1].value
             <=> (email_configured /\ calls.smtp # <<>> /\ calls.smtp[1].ok)

\* A check failed and the error alert could not be sent.
C10_Witness ==
    /\ Checked /\ ret.error # None /\ email_configured
    /\ calls.smtp # <<>> /\ ~calls.smtp[1].ok /\ ~calls.error_notify[1].value

\* C11: every check makes one GET, at most one SMTP send and at most one call
\* of the SMS provider; the SMTP send is the error alert when the check failed
\* and the availability alert when it did not, never one of each.
C11_OutboundCalls ==
    Checked =>
        /\ Len(calls.http) = 1
        /\ Len(calls.smtp) <= 1
        /\ Len(calls.sms) <= 1
        /\ \A k \in 1..Len(calls.smtp) :
              calls.smtp[k].kind = (IF ret.error # None THEN "error" ELSE "availability")
        /\ ret.error # None => calls.sms = <<>>

\* Units were found, the email was refused by the transport and the SMS went out.
C11_Witness ==
    /\ Checked /\ ret.apartments # <<>>
    /\ Len(calls.http) = 1 /\ Len(calls.smtp) = 1 /\ ~calls.smtp[1].ok
    /\ Len(calls.sms) = 1

\* What the scraper met during the check that ran last, read off its calls.
ScrapeEnv ==
    LET raised == {k \in 1..Len(calls.extract) : calls.extract[k].raised}
    IN  [http        |-> Got,
         soup_raises |-> calls.parse # <<>> /\ calls.parse[1].raised,
         bad         |-> IF raised = {} THEN 0 ELSE CHOOSE k \in raised : TRUE,
         now         |-> clock]

\* The same check with every send accepted by its transport.
AllSent ==
    LET scraped == CHOOSE s \in Scraped : s.env = ScrapeEnv
    IN  check_apartments(scraped.done, TRUE, TRUE).result

ResultKeys == {"available", "apartments", "error", "timestamp", "notifications"}

\* C12: whatever the fetch, the parse and the sends do, check_apartments
\* returns a result record; a refused send changes the flag of its channel to
\* false and nothing else: available, the units and the error are those of
\* the same check with every send accepted.
C12_SendFailureIsContained ==
    Checked =>
        /\ DOMAIN ret = ResultKeys
        /\ ret.available \in BOOLEAN /\ ret.timestamp = Some(clock)
        /\ ret.available = AllSent.available
        /\ ret.apartments = AllSent.apartments
        /\ ret.error = AllSent.error
        /\ (ret.notifications = None) = (AllSent.notifications = None)
        /\ ret.notifications # None =>
              /\ ret.error = None
              /\ ret.notifications[1].email_sent
                    = (AllSent.notifications[1].email_sent /\ calls.smtp[1].ok)
              /\ ret.notifications[1].sms_sent
                    = (AllSent.notifications[1].sms_sent /\ calls.sms[1].ok)

\* Both channels are configured and both sends were refused; the check still
\* reports its units.
C12_Witness ==
    /\ Checked /\ email_configured /\ sms_configured
    /\ ret.available /\ ret.error = None
    /\ ret.notifications = Some([email_sent |-> FALSE, sms_sent |-> FALSE])
    /\ Len(calls.smtp) = 1 /\ Len(calls.sms) = 1

\* The GET was answered with a success status.
Fetched2xx == Got.kind = "response" /\ Got.status \in 200..299

\* The check went on to the parser and completed without error.
Proceeded ==
    /\ Len(calls.parse) = 1
    /\ ret.error = None /\ calls.error_notify = <<>>
    /\ (calls.parse[1].raised \/ \A k \in 1..Len(calls.extract) :
            _extract_apartment_info(Got.body, calls.extract[k].element, FALSE) = None)
         => ~ret.available /\ ret.apartments = <<>>

\* C13 as claimed: after a success status the check goes on to extraction,
\* whatever the body, the empty one included.
C13_Original == Checked /\ Fetched2xx => Proceeded

\* C13 amended: after a success status fetch_page returns the body, whatever
\* it is.  With a body that is not empty the check goes on to extraction and
\* completes without error, a page without candidates giving available =
\* false.  With the empty body the check fails as if the fetch had failed.
C13_SuccessStatus ==
    Checked /\ Fetched2xx =>
        /\ fetch_page(Got) = [raised |-> None, value |-> Some(Got.body)]
        /\ Got.body # EmptyBody => Proceeded
        /\ Got.body = EmptyBody =>
              /\ ret.error = Some("Failed to fetch page content")
              /\ ~ret.available /\ ret.apartments = <<>>
              /\ calls.parse = <<>> /\ calls.extract = <<>> /\ calls.notify = <<>>
              /\ Len(calls.error_notify) = 1

\* The server answered 200 with an empty body and the error alert went out.
C13_Witness ==
    /\ Checked /\ Got.kind = "response" /\ Got.status = 200 /\ Got.body = EmptyBody
    /\ ret.error # None /\ Len(calls.smtp) = 1 /\ calls.smtp[1].kind = "error"

\* C14: get_status after a check reports the result of that check as the
\* last one, whether it failed or not; it reports no last result only when no
\* check has run; and it makes no call to the network.
C14_StatusReportsLastCheck ==
    [][op' = "get_status" =>
          /\ Checked => ret'.last_check = Some(ret)
          /\ ret'.last_check = None => clock = 0
          /\ calls' = NoCalls]_vars

\* The process runs, or ran, the `schedule` command past its first check.
Scheduling == process.ran # <<>>

\* The check logged at position k ran when the daily job was due.
RanWhenDue(k) == process.ran[k].at >= process.ran[k].next_run[1]

\* C15 as claimed: in `schedule` mode every check runs when the daily job is
\* due.
C15_Original ==
    Scheduling => \A k \in 1..Len(process.ran) : RanWhenDue(k)

\* What holds of the checks of a scheduler: the first one ran at the start,
\* before the job was due; each later one ran when the job was due, at
\* CHECK_TIME or at the first poll after it, and for a later day than the
\* one before it.
ScheduledChecks ==
    Scheduling =>
        /\ Len(process.ran) = clock
        /\ ~RanWhenDue(1)
        /\ \A k \in 2..Len(process.ran) :
              /\ RanWhenDue(k)
              /\ process.ran[k].next_run[1] % Day = CheckTick
              /\ process.ran[k].at >= process.ran[k - 1].at
              /\ k > 2 => process.ran[k].next_run[1] >= process.ran[k - 1].next_run[1] + Day

\* C15 amended: run_scheduler runs one check at once, due or not; after it a
\* check runs only in a pass of the loop that finds the daily job due, one
\* check for each day's job; a pass is over before the next begins; and the
\* loop is left by a KeyboardInterrupt only.
C15_Scheduler ==
    [][/\ ScheduledChecks'
       /\ (process.phase = "scheduler" /\ clock' # clock)
            => /\ process.now >= process.next_run[1]
               /\ clock' = clock + 1
               /\ process'.next_run[1] > process.now
               /\ process'.now > process.now
       /\ (process.phase = "scheduler" /\ process'.phase # "scheduler")
            => op' = "KeyboardInterrupt"]_vars

\* The first check ran one poll before CHECK_TIME and the job's check at
\* CHECK_TIME; the job ran again the day after.
C15_Witness ==
    /\ process.phase = "scheduler" /\ Len(process.ran) = 3
    /\ process.ran[2].at = process.ran[1].at + 1
    /\ process.ran[3].at = process.ran[2].at + Day

ParsedPage == op = "parse_apartments"

\* The positions of a set, in document order.
RECURSIVE InOrder(_)
InOrder(S) ==
    IF S = {} THEN <<>>
    ELSE LET first == CHOOSE i \in S : \A j \in S : i <= j
         IN  <<first>> \o InOrder(S \ {first})

\* The elements parse_apartments read, in the order it read them.
Selected == [k \in 1..Len(calls.extract) |-> calls.extract[k].element]

Containers(doc) == {i \in 1..Len(doc) : doc[i].tag \in {"div", "section", "article"}}

\* C16 as claimed: parse_apartments returns a list, an empty one only for a
\* page without div, section and article, and one candidate for each element
\* it selected.
C16_Original ==
    ParsedPage =>
        /\ ret = <<>> => Containers(arg.html_content) = {}
        /\ Len(ret) = Len(Selected)

\* The selected elements that were read and whose text holds a one-bedroom
\* or an ARO keyword.
Relevant ==
    {k \in 1..Len(calls.extract) :
        /\ ~calls.extract[k].raised
        /\ LET text == lower(JoinText(arg.html_content, Selected[k],
                                      SubtreeEnd(arg.html_content, Selected[k], Selected[k])))
           IN  \/ \E t \in {"1 bed", "1-bed", "one bed", "1br", "1 br"} : Contains(text, t)
               \/ \E t \in {"aro", "affordable rental", "affordable housing"} :
                      Contains(text, t)}

\* C16 amended: parse_apartments returns a list whatever happens; it is made
\* of one candidate for each selected element whose text holds a one-bedroom
\* or an ARO keyword, in document order, and no candidate for any other
\* element; it is empty when the tree could not be built.
C16_Extractor ==
    ParsedPage =>
        /\ arg.soup_raises => ret = <<>> /\ Selected = <<>>
        /\ ret = [n \in 1..Cardinality(Relevant) |->
                    apartment_info(arg.html_content, Selected[InOrder(Relevant)[n]])]
        /\ \A n \in 1..Len(ret) : ret[n].is_one_bedroom \/ ret[n].is_aro

\* A page with two containers and no candidate.
C16_Witness ==
    /\ ParsedPage /\ arg.html_content = IrrelevantPage
    /\ ~arg.soup_raises /\ arg.bad = 0
    /\ Len(Selected) = 2 /\ ret = <<>>

ClassMatches(doc, i) ==
    /\ doc[i].class # None
    /\ \E t \in {"apartment", "unit", "floor", "plan", "listing"} :
          Contains(lower(doc[i].class[1]), t)

\* The selection over one set of tags: the elements of these tags whose
\* class matches or, when there is none, all elements of the fallback tags.
Selection(doc, tags, fallback) ==
    LET filtered == {i \in 1..Len(doc) : doc[i].tag \in tags /\ ClassMatches(doc, i)}
    IN  IF filtered # {} THEN InOrder(filtered)
        ELSE InOrder({i \in 1..Len(doc) : doc[i].tag \in fallback})

\* C19 as claimed: the filtered selection and the fallback are over div,
\* section and article both.
C19_Original ==
    ParsedPage /\ ~arg.soup_raises =>
        Selected = Selection(arg.html_content, {"div", "section", "article"},
                             {"div", "section", "article"})

\* C19 amended: the filtered selection is over div and section only, an
\* article is never in it; the fallback, taken when the filtered selection
\* is empty, is over div, section and article.
C19_Selection ==
    ParsedPage /\ ~arg.soup_raises =>
        Selected = Selection(arg.html_content, {"div", "section"},
                             {"div", "section", "article"})

\* An article whose class matches was passed over for the div beside it.
C19_Witness ==
    /\ ParsedPage /\ arg.html_content = ArticlePage /\ ~arg.soup_raises
    /\ Selected = <<2>>

\* C17: the body of the availability email and the body of the SMS that
\* notify_availability sends for a list of units each hold the number of the
\* units, in decimal, and the URL of the site.
C17_BodiesHoldCountAndUrl ==
    Notified /\ arg # <<>> =>
        /\ \A k \in 1..Len(calls.smtp) :
              /\ calls.smtp[k].body = _create_email_body(arg)
              /\ Contains(calls.smtp[k].body, "<strong>" \o str(Len(arg)) \o "</strong>")
              /\ Contains(calls.smtp[k].body, LINCOLN_COMMONS_URL)
        /\ \A k \in 1..Len(calls.sms) :
              /\ Contains(calls.sms[k].body, " " \o str(Len(arg)) \o " ")
              /\ Contains(calls.sms[k].body, LINCOLN_COMMONS_URL)

\* Three units were notified of by email and by SMS.
C17_Witness ==
    /\ Notified /\ Len(arg) = 3
    /\ Len(calls.smtp) = 1 /\ Len(calls.sms) = 1
    /\ Contains(calls.sms[1].body, "ALERT: 3 ARO")

Exited == process.phase = "exited"

\* The process ran a command main knows to its end, or a setup all of whose
\* steps succeeded.
CompletedNormally ==
    \/ /\ process.program = "monitor" /\ process.logging_ok
       /\ Len(process.argv) >= 1
       /\ lower(process.argv[1]) \in {"check", "schedule", "status", "test"}
    \/ /\ process.program = "setup"
       /\ arg = <<TRUE, TRUE, TRUE, TRUE>>

\* C18: a process has no exit code before it ends; it ends with code 0 when
\* it ran a known command to its end, a `check` whose result carries an
\* error included, or a setup that met every precondition, and with a code
\* that is not 0 when the command is unknown or missing, when setup_logging
\* failed, or when a step of the setup failed.
C18_ExitCodes ==
    /\ ~Exited => process.exit_code = None
    /\ Exited =>
          /\ process.exit_code # None
          /\ (process.exit_code = Some(0)) = CompletedNormally
          /\ (command # None /\ command[1] = "deploy") => process.exit_code # Some(0)
          /\ (op = "run_once" /\ ret.error # None) => process.exit_code = Some(0)

\* A `check` that failed to fetch its page ended with code 0.
C18_Witness ==
    /\ Exited /\ command = Some("check") /\ op = "run_once"
    /\ ret.error # None /\ process.printed[1].error = ret.error
    /\ process.exit_code = Some(0)

\* The element read at position k of the check was read without an
\* exception.
Read(k) == ~calls.extract[k].raised

\* The text below the element read at position k holds a keyword of each of
\* the three sets.
MatchesAllThree(k) ==
    LET i == calls.extract[k].element
        text == lower(JoinText(Got.body, i, SubtreeEnd(Got.body, i, i)))
    IN  /\ \E t \in {"1 bed", "1-bed", "one bed", "1br", "1 br"} : Contains(text, t)
        /\ \E t \in {"aro", "affordable rental", "affordable housing"} : Contains(text, t)
        /\ \E t \in {"available", "vacant", "ready"} : Contains(text, t)

\* The element read at position m holds the element read at position k.
Ancestor(m, k) ==
    LET i == calls.extract[m].element
        j == calls.extract[k].element
    IN  i < j /\ SubtreeEnd(Got.body, i, i) >= j

\* The element read at position m is one of the units of the result.
Reported(m) ==
    LET i == calls.extract[m].element
    IN  \E n \in 1..Len(ret.apartments) :
            ret.apartments[n].raw_html = SubSeq(Got.body, i, SubtreeEnd(Got.body, i, i))

\* C20: when a selected element matches all three keyword sets, every
\* selected element that holds it is reported as a unit as well; one listing
\* in two selected containers gives three units, in the result and in the
\* alerts, and the page of test_utils, one listing in one container, two.
C20_AncestorsAreUnits ==
    Checked /\ ret.error = None /\ ~calls.parse[1].raised =>
        /\ \A k \in 1..Len(calls.extract) :
              Read(k) /\ MatchesAllThree(k) =>
                  /\ Reported(k)
                  /\ \A m \in 1..Len(calls.extract) :
                        Read(m) /\ Ancestor(m, k) => Reported(m)
        /\ (\A k \in 1..Len(calls.extract) : Read(k))
             => /\ Got.body = NestedPage => Len(ret.apartments) = 3
                /\ Got.body = MockHtmlWithApartments => Len(ret.apartments) = 2
                /\ \A n \in 1..Len(calls.smtp) : calls.smtp[n].count = Len(ret.apartments)
                /\ \A n \in 1..Len(calls.sms) : calls.sms[n].count = Len(ret.apartments)

\* The page with one listing in two containers was checked: three units, and
\* an SMS that announces three.
C20_Witness ==
    /\ Checked /\ Got.body = NestedPage /\ Len(calls.extract) = 3
    /\ Len(ret.apartments) = 3
    /\ Len(calls.sms) = 1 /\ Contains(calls.sms[1].body, "ALERT: 3 ARO")

\* The process runs the `test` command and has run a check of it.
Testing == command = Some("test") /\ op = "run_once"

\* C21: the checks of the `test` command make no GET and go through the
\* notifier of the process.  The first, with the mock that finds nothing,
\* calls neither notify_availability nor send_error_notification and
\* attempts no send.  The second, with the mock that finds its unit, calls
\* notify_availability with that one unit: one SMTP send is attempted when
\* email is configured and one SMS when SMS is configured.
C21_TestCommand ==
    Testing =>
        /\ calls.http = <<>> /\ calls.parse = <<>> /\ calls.extract = <<>>
        /\ calls.error_notify = <<>> /\ ret.error = None
        /\ process.phase = "test 2" =>
              /\ clock = 1 /\ ~ret.available /\ ret.apartments = <<>>
              /\ calls.notify = <<>> /\ calls.smtp = <<>> /\ calls.sms = <<>>
              /\ ret.notifications = None
        /\ Exited =>
              /\ clock = 2 /\ ret.available /\ Len(ret.apartments) = 1
              /\ ret.apartments[1].element_text = "aro one bedroom apartment available now"
              /\ calls.notify = <<ret.apartments>>
              /\ Len(calls.smtp) = (IF email_configured THEN 1 ELSE 0)
              /\ Len(calls.sms) = (IF sms_configured THEN 1 ELSE 0)
              /\ \A k \in 1..Len(calls.smtp) :
                    calls.smtp[k].kind = "availability" /\ calls.smtp[k].count = 1
              /\ \A k \in 1..Len(calls.sms) : calls.sms[k].count = 1
              /\ ret.notifications
                    = Some([email_sent |-> email_configured /\ calls.smtp[1].ok,
                            sms_sent   |-> sms_configured /\ calls.sms[1].ok])
              /\ Len(process.printed) = 2

\* The `test` command ended with both channels configured: an email and an
\* SMS for the canned unit went to the transports, and both were accepted.
C21_Witness ==
    /\ Testing /\ Exited /\ email_configured /\ sms_configured
    /\ calls.http = <<>>
    /\ Len(calls.smtp) = 1 /\ calls.smtp[1].ok
    /\ Len(calls.sms) = 1 /\ calls.sms[1].ok
    /\ process.printed[1].count = 0 /\ process.printed[2].count = 1

---------------------------------------------------------------------------
(* The legacy monitor's alert *)

Legacy == op = "check_availability"

\* find_aro_units has run, in a check or on its own.
Searched == op \in {"check_availability", "find_aro_units"} /\ ret.soup # None

\* The containers find_aro_units looks at whose text holds a bedroom keyword
\* and an ARO keyword.
KeywordContainers(doc) ==
    {i \in 1..Len(doc) :
        /\ doc[i].tag \in {"div", "section"}
        /\ doc[i].class # None
        /\ \E w \in {"floorplan", "unit", "apartment", "plan"} :
                Contains(lower(doc[i].class[1]), w)
        /\ \E w \in {"bedroom", "1br", "1 br"} : Contains(lower(get_text(doc, i)), w)
        /\ \E w \in {"aro", "affordable", "rental opportunity"} :
                Contains(lower(get_text(doc, i)), w)}

\* The container holds something to report: a heading that names a bedroom,
\* or a string about availability, a price or a size.
HasDetail(doc, i) ==
    \E k \in i..SubtreeEnd(doc, i, i) :
        \/ /\ k > i
           /\ doc[k].tag \in {"h1", "h2", "h3", "h4"}
           /\ tag_string(doc, k) # None
           /\ Contains(lower(tag_string(doc, k)[1]), "bedroom")
        \/ \E w \in {"available", "vacant", "ready", "$", "sq ft", "sqft"} :
                Contains(lower(doc[k].text), w)

\* An alert email is attempted exactly when the page was fetched and units
\* were found, and a failed fetch makes no outbound call but the GET.
AlertIffUnits ==
    /\ (calls.smtp # <<>>) <=> (ret.soup # None /\ ret.available_units # <<>>)
    /\ Len(calls.smtp) <= 1
    /\ calls.sms = <<>> /\ calls.notify = <<>> /\ calls.error_notify = <<>>
    /\ ret.soup = None => ret.available_units = <<>> /\ calls.smtp = <<>>

\* C22 as stated: the legacy check sends an alert email if and only if the
\* page was fetched and units were found, a failed fetch sends nothing, and
\* every container with a bedroom keyword and an ARO keyword is a unit.
C22_Original ==
    /\ Legacy => AlertIffUnits
    /\ Searched =>
            Len(ret.available_units) = Cardinality(KeywordContainers(ret.soup[1]))

\* C22, amended: the legacy check sends an alert email if and only if the
\* page was fetched and units were found, and a failed fetch sends nothing;
\* a container with a bedroom keyword and an ARO keyword is a unit exactly
\* when it also holds a detail to report (a bedroom heading, an availability
\* text, a price or a size), of which the availability text is only one.
C22_LegacyAlert ==
    /\ Legacy =>
          /\ AlertIffUnits
          /\ calls.smtp # <<>> =>
                /\ Contains(calls.smtp[1].subject,
                            str(Len(ret.available_units)) \o " unit(s)")
                /\ Contains(calls.smtp[1].body, base_url)
    /\ Searched =>
          /\ Len(ret.available_units) =
                Cardinality({i \in KeywordContainers(ret.soup[1]) :
                                HasDetail(ret.soup[1], i)})
          /\ \A k \in 1..Len(ret.available_units) :
                ret.available_units[k] # empty_unit_info

\* An alert goes out for a unit that says nothing about availability.
C22_Witness ==
    /\ Legacy
    /\ ret.soup # None
    /\ Len(ret.available_units) = 1
    /\ ret.available_units[1].availability = None
    /\ ret.available_units[1].name = Some("One Bedroom ARO")
    /\ Len(calls.smtp) = 1
    /\ calls.smtp[1].ok

====
